---------------------------- MODULE Spec2Model ----------------------------
(***************************************************************************)
(* A model of crates/q_cli/src/cli/chat/tool_manager.rs: the configuration *)
(* merger (McpServerConfig::load_config), the name sanitizer               *)
(* (sanitize_server_name), the concurrent bootstrapper                     *)
(* (ToolManager::from_configs) with its progress display thread            *)
(* (loading_display_task), and the tool registry and router                *)
(* (ToolManager::load_tools, ToolManager::get_tool_from_tool_use).         *)
(*                                                                         *)
(* A Rust String is a sequence of one-character strings, so that filtering,*)
(* suffixing, prefixing and splitting are computed character by character. *)
(***************************************************************************)
EXTENDS Integers, Sequences, FiniteSets, TLC

VARIABLES
    pc,                 \* where the program is
    global_file,        \* ~/.aws/amazonq/mcp.json
    local_file,         \* ./.amazonq/mcp.json
    mcp_servers,        \* McpServerConfig.mcp_servers: raw name -> config
    output,             \* what was written to the caller's `output`
    hasher,             \* the DefaultHasher shared by the sanitizer calls
    pre_initialized,    \* Vec<(server_name, unstarted client)>
    next_i,             \* how many items buffer_unordered pulled from the stream
    task,               \* per item: "unpolled", "queued", "running", "done"
    init_results,       \* Vec<(name, result)> in completion order
    ri,                 \* how many init_results the insertion loop has consumed
    clients,            \* ToolManager.clients: key -> Arc<CustomToolClient>
    load_tool_results,  \* Vec<(server_name, result)> of load_tools
    li,                 \* how many load_tool_results were consumed
    tool_specs,         \* the map load_tools builds
    routed,             \* the last value get_tool_from_tool_use returned
    orig,               \* the argument of the last sanitize_server_name call
    sanitized,          \* its return value
    rx,                 \* the LoadingMsg values sent and not yet received
    thread,             \* loading_display_task: "none", "running", or how it ended
    tx_alive,           \* tx and tx_clone are not dropped yet
    output_idx,         \* the display thread's output_idx
    loading_servers,    \* the display thread's map: name -> (pos, idx, done)
    rows,               \* the status rows on the terminal, top to bottom
    ticks,              \* how many receive timeouts the display thread has seen
    signals,            \* per item: the tx.send calls of its future, in order
    log                 \* the error! records

\* the state of the progress display and of its channel
display_vars == <<rx, thread, tx_alive, output_idx, loading_servers, rows, ticks,
                  signals>>

vars == <<pc, global_file, local_file, mcp_servers, output, hasher,
          pre_initialized, next_i, task, init_results, ri, clients,
          load_tool_results, li, tool_specs, routed, orig, sanitized,
          display_vars, log>>

(***************************************************************************)
(* Bounds of the model.                                                    *)
(***************************************************************************)
\* longest string given to sanitize_server_name on its own
MaxNameLen == 3
\* most providers in a configuration that is bootstrapped
MaxProviders == 3
\* providers in the configuration that exceeds the concurrency width
MaxBootProviders == 11
\* most entries of one configuration file
MaxFileEntries == 2
\* most providers of a manager that routes invocations
MaxRouteProviders == 2
\* most providers of a bootstrap whose progress display is followed
MaxDisplayProviders == 2
\* most receive timeouts of the display thread in one bootstrap
MaxTicks == 1

(***************************************************************************)
(* Characters and strings.                                                 *)
(***************************************************************************)
LowerChars == {"a", "b", "c", "d", "e", "f", "h", "i", "o", "p", "r", "s",
               "t", "u", "w", "x"}
UpperChars == {"A"}
DigitChars == <<"0", "1", "2", "3", "4", "5", "6", "7", "8", "9">>

\* [a-zA-Z]
IsLetter(c) == c \in LowerChars \cup UpperChars
\* [a-zA-Z0-9_]
IsWordChar(c) ==
    IsLetter(c) \/ c = "_" \/ \E d \in 1..Len(DigitChars) : DigitChars[d] = c

\* every string over `alphabet` of length n
StringsOfLen(alphabet, n) == [1..n -> alphabet]
\* every string over `alphabet` of length at most n
StringsUpTo(alphabet, n) == UNION {StringsOfLen(alphabet, k) : k \in 0..n}

\* u64::to_string: the decimal digits of n
RECURSIVE ToDecimal(_)
ToDecimal(n) ==
    IF n < 10 THEN <<DigitChars[n + 1]>>
    ELSE ToDecimal(n \div 10) \o <<DigitChars[(n % 10) + 1]>>

(***************************************************************************)
(* VALID_TOOL_NAME and regex::Regex::is_match.  The pattern carries no     *)
(* anchors and is_match searches: it answers whether SOME substring of the *)
(* text matches the pattern.                                               *)
(***************************************************************************)
\* the whole of s matches [a-zA-Z][a-zA-Z0-9_]*
MatchesPattern(s) ==
    /\ Len(s) >= 1
    /\ IsLetter(s[1])
    /\ \A k \in 2..Len(s) : IsWordChar(s[k])

\* regex.is_match(s) for regex = Regex::new(VALID_TOOL_NAME)
RegexIsMatch(s) ==
    \E i \in 1..Len(s) : \E j \in i..Len(s) : MatchesPattern(SubSeq(s, i, j))

(***************************************************************************)
(* std::hash::DefaultHasher, abstracted: the state is a number, write      *)
(* folds the bytes of the string and its 0xff terminator into it, finish   *)
(* reads it.  The width is HashModulus instead of 2^64; what is kept is    *)
(* that the state is shared, that it depends on everything hashed so far   *)
(* and that finish() is an unsigned number.                                *)
(***************************************************************************)
HashModulus == 2 ^ 4
HasherNew == 0

CharCode(c) ==
    IF c \in LowerChars \cup UpperChars THEN 1
    ELSE IF c = "_" THEN 2
    ELSE IF c = "-" THEN 3
    ELSE IF c = "!" THEN 5
    ELSE 7

RECURSIVE HashWrite(_, _)
\* <String as Hash>::hash(s, h)
HashWrite(h, s) ==
    IF s = <<>> THEN (h * 3 + 11) % HashModulus
    ELSE HashWrite((h * 3 + CharCode(Head(s))) % HashModulus, Tail(s))

HasherFinish(h) == h

(***************************************************************************)
(* sanitize_server_name(orig, regex, hasher): the returned name and the    *)
(* hasher afterwards.                                                      *)
(***************************************************************************)
KeepChar(c) == RegexIsMatch(<<c>>)

\* lines 362-372 without the early return of lines 363-365
sanitize_filters_first(o, h) ==
    LET filtered == SelectSeq(o, KeepChar)
    IN  IF filtered = <<>>
        THEN [name |-> ToDecimal(HasherFinish(HashWrite(h, o))),
              hasher |-> HashWrite(h, o)]
        ELSE [name |-> filtered, hasher |-> h]

sanitize_server_name(o, h) ==
    IF RegexIsMatch(o) THEN [name |-> o, hasher |-> h]
    ELSE LET filtered == SelectSeq(o, KeepChar)
         IN  IF filtered = <<>>
             THEN [name |-> ToDecimal(HasherFinish(HashWrite(h, o))),
                   hasher |-> HashWrite(h, o)]
             ELSE [name |-> filtered, hasher |-> h]


(***************************************************************************)
(* server_name.to_case(convert_case::Case::Snake), line 114: the words of  *)
(* the name, split at '_' and '-', where an upper-case letter follows a    *)
(* lower-case one and where a letter meets a digit, in lower case and      *)
(* joined by '_'; empty words vanish.  The raw names of the model hold no  *)
(* space and no run of upper-case letters.                                 *)
(***************************************************************************)
IsDelimiter(c) == c \in {"_", "-"}
ToLower(c) == IF c = "A" THEN "a" ELSE c
IsDigit(c) == \E d \in 1..Len(DigitChars) : DigitChars[d] = c

RECURSIVE SnakeFrom(_, _, _, _)
SnakeFrom(s, i, out, sep) ==
    IF i > Len(s) THEN out
    ELSE IF IsDelimiter(s[i]) THEN SnakeFrom(s, i + 1, out, TRUE)
    ELSE LET boundary == \/ sep
                         \/ /\ i > 1
                            /\ \/ s[i] \in UpperChars /\ s[i - 1] \in LowerChars
                               \/ IsDigit(s[i]) /\ IsLetter(s[i - 1])
                               \/ IsLetter(s[i]) /\ IsDigit(s[i - 1])
             glue == IF boundary /\ out # <<>> THEN <<"_">> ELSE <<>>
         IN  SnakeFrom(s, i + 1, out \o glue \o <<ToLower(s[i])>>, FALSE)

to_case_snake(s) == SnakeFrom(s, 1, <<>>, FALSE)

(***************************************************************************)
(* The collaborators.  A CustomToolConfig is opaque to this file; what it  *)
(* decides is how the client built from it behaves: whether its start      *)
(* succeeds, whether get_tool_spec succeeds and which tools it declares.   *)
(***************************************************************************)
Configs == {"X", "Y", "F", "S"}

\* whether awaiting CustomToolClient::from_config(name, cfg) yields Ok(client)
Boots(cfg) == cfg # "F"
\* whether client.get_tool_spec() yields Ok((name, specs))
FetchOk(cfg) == cfg \in {"X", "Y"}
\* the names of the specs a client declares
DeclaredTools(cfg) ==
    IF cfg = "X" THEN << <<"t">> >>
    ELSE IF cfg = "Y" THEN << <<"t">>, <<"u", "_", "_", "_", "x">> >>
    ELSE << >>

\* the arrangements of a finite set as a sequence (an iteration order of a HashMap)
Orders(S) ==
    {f \in [1..Cardinality(S) -> S] : \A i, j \in DOMAIN f : f[i] = f[j] => i = j}

\* the value of variables that hold nothing yet
NoMap == << >>
NoValue == [kind |-> "none"]

(***************************************************************************)
(* ToolManager::from_configs, lines 107-120: sanitize every provider name  *)
(* in the map's iteration order and build the unstarted clients.           *)
(***************************************************************************)
RECURSIVE PreInitFrom(_, _, _, _, _)
PreInitFrom(servers, order, i, h, acc) ==
    IF i > Len(order) THEN [list |-> acc, hasher |-> h]
    ELSE LET r == sanitize_server_name(to_case_snake(order[i]), h)
         IN  PreInitFrom(servers, order, i + 1, r.hasher,
                         Append(acc, [name |-> r.name, cfg |-> servers[order[i]]]))

Prepare ==
    /\ pc = "from_configs"
    /\ \E order \in Orders(DOMAIN mcp_servers) :
          LET pre == PreInitFrom(mcp_servers, order, 1, HasherNew, <<>>)
          IN  /\ pre_initialized' = pre.list
              /\ hasher' = pre.hasher
    /\ task' = [i \in 1..Cardinality(DOMAIN mcp_servers) |-> "unpolled"]
    /\ next_i' = 0
    /\ init_results' = <<>>
    /\ clients' = NoMap
    \* lines 127-209: the channel, the display thread and tx_clone
    /\ rx' = <<>>
    /\ thread' = "running"
    /\ tx_alive' = TRUE
    /\ output_idx' = 0
    /\ loading_servers' = NoMap
    /\ rows' = <<>>
    /\ ticks' = 0
    /\ signals' = [i \in 1..Cardinality(DOMAIN mcp_servers) |-> <<>>]
    /\ pc' = "booting"
    /\ UNCHANGED <<global_file, local_file, mcp_servers, output, ri,
                   load_tool_results, li, tool_specs, routed, orig, sanitized, log>>

(***************************************************************************)
(* Lines 210-222: stream::iter(pre_initialized).map(..).buffer_unordered(10)*)
(* .collect().  buffer_unordered pulls the next future from the stream     *)
(* while fewer than 10 are in its queue, and only then polls the queue.  A *)
(* future first polled sends Add and awaits the start of its client; when  *)
(* that start completes it sends Remove and yields (name, result), which   *)
(* collect() appends.                                                      *)
(***************************************************************************)
BufferWidth == 10

InQueue == {i \in DOMAIN task : task[i] \in {"queued", "running"}}
\* started (Add sent) and not yet completed (Remove not sent)
InFlight == {i \in DOMAIN task : task[i] = "running"}

CanSubmitUncapped == pc = "booting" /\ next_i < Len(pre_initialized)

CanSubmit ==
    /\ pc = "booting"
    /\ next_i < Len(pre_initialized)
    /\ Cardinality(InQueue) < BufferWidth

Submit ==
    /\ CanSubmit
    /\ task' = [task EXCEPT ![next_i + 1] = "queued"]
    /\ next_i' = next_i + 1
    /\ UNCHANGED <<pc, global_file, local_file, mcp_servers, output, hasher,
                   pre_initialized, init_results, ri, clients,
                   load_tool_results, li, tool_specs, routed, orig, sanitized,
                   display_vars, log>>

\* a send that waits for a receiver
SendToLiveReceiver(i, msg) ==
    /\ thread = "running"
    /\ rx' = Append(rx, msg)
    /\ signals' = [signals EXCEPT ![i] = Append(@, [kind |-> msg.kind, delivered |-> TRUE])]

\* let _ = tx.send(msg), lines 214 and 216: the channel is unbounded, so the send
\* returns at once; it fails when the receiver is gone (the display thread has
\* ended), and the failure is discarded
Send(i, msg) ==
    /\ rx' = IF thread = "running" THEN Append(rx, msg) ELSE rx
    /\ signals' = [signals EXCEPT
                      ![i] = Append(@, [kind |-> msg.kind, delivered |-> thread = "running"])]

\* line 214, and the first poll of uninit_client at line 215
StartTask(i) ==
    /\ pc = "booting"
    /\ ~CanSubmit
    /\ task[i] = "queued"
    /\ \A j \in 1..(i - 1) : task[j] # "queued"
    /\ Send(i, [kind |-> "Add", name |-> pre_initialized[i].name])
    /\ task' = [task EXCEPT ![i] = "running"]
    /\ UNCHANGED <<pc, global_file, local_file, mcp_servers, output, hasher,
                   pre_initialized, next_i, init_results, ri, clients,
                   load_tool_results, li, tool_specs, routed, orig, sanitized,
                   thread, tx_alive, output_idx, loading_servers, rows, ticks, log>>

\* uninit_client is ready: lines 215-217, and collect() takes the pair
CompleteTask(i) ==
    /\ pc = "booting"
    /\ ~CanSubmit
    /\ task[i] = "running"
    /\ Send(i, [kind |-> "Remove", name |-> pre_initialized[i].name])
    /\ task' = [task EXCEPT ![i] = "done"]
    /\ init_results' = Append(init_results, pre_initialized[i])
    /\ UNCHANGED <<pc, global_file, local_file, mcp_servers, output, hasher,
                   pre_initialized, next_i, ri, clients,
                   load_tool_results, li, tool_specs, routed, orig, sanitized,
                   thread, tx_alive, output_idx, loading_servers, rows, ticks, log>>

\* collect() returning with the first result
ResultsCollectedEarly == pc = "booting" /\ init_results # <<>>

\* line 221-222: collect() returns when the stream is exhausted and every future
\* of the queue has yielded
ResultsCollected ==
    /\ pc = "booting"
    /\ next_i = Len(pre_initialized)
    /\ \A i \in DOMAIN task : task[i] = "done"

\* lines 221-224: the results are collected; tx_clone and tx are dropped
DropSenders ==
    /\ ResultsCollected
    /\ tx_alive' = FALSE
    /\ pc' = "joining"
    /\ UNCHANGED <<global_file, local_file, mcp_servers, output, hasher,
                   pre_initialized, next_i, task, init_results, ri, clients,
                   load_tool_results, li, tool_specs, routed, orig, sanitized,
                   rx, thread, output_idx, loading_servers, rows, ticks, signals, log>>

\* thread::JoinHandle::join returns Err only for a thread that panicked
JoinIsErr == thread = "panicked"

\* the thread has ended and join() returns at once
ThreadEnded == thread \in {"ok", "err", "panicked"}

\* lines 225-228: the display thread is joined, a panic of it is logged, and the
\* empty client map is created
Join ==
    /\ pc = "joining"
    /\ ThreadEnded
    /\ log' = IF JoinIsErr THEN Append(log, [kind |-> "display_failed"]) ELSE log
    /\ pc' = "inserting"
    /\ ri' = 0
    /\ clients' = NoMap
    /\ UNCHANGED <<global_file, local_file, mcp_servers, output, hasher,
                   pre_initialized, next_i, task, init_results,
                   load_tool_results, li, tool_specs, routed, orig, sanitized,
                   display_vars>>

(***************************************************************************)
(* loading_display_task, lines 129-207: the thread receives with a timeout *)
(* of 50 ms.  A message is handled as soon as one is queued; a timeout     *)
(* happens only while the queue is empty and a sender is alive; with the   *)
(* queue empty and every sender dropped the receive reports the            *)
(* disconnection and the loop ends.  A failed write to the terminal ends   *)
(* the thread through `?`, a failed flush through unwrap().                *)
(***************************************************************************)
SPINNER_CHARS == 10

\* a sender exists: tx, tx_clone, or the clone held by a future of the stream
SendersAlive ==
    tx_alive \/ \E i \in DOMAIN task : task[i] \in {"queued", "running"}

\* the row of the terminal (counted from 1) that a cursor::MoveUp by
\* output_idx - pos reaches
RowAt(pos) == pos + 1

\* the closure of lines 129-207 returns or unwinds: the receiver and the locals
\* output_idx and loading_servers are dropped, what was printed stays
EndThread(how) ==
    /\ thread' = how
    /\ rx' = <<>>
    /\ output_idx' = 0
    /\ loading_servers' = NoMap
    /\ ticks' = 0
    /\ rows' = rows

\* LoadingMsg::Add(name), lines 149-161
RecvAdd(written) ==
    /\ thread = "running"
    /\ rx # <<>>
    /\ Head(rx).kind = "Add"
    /\ IF written
       THEN /\ rx' = Tail(rx)
            /\ loading_servers' =
                  [n \in DOMAIN loading_servers \cup {Head(rx).name} |->
                      IF n = Head(rx).name
                      THEN [pos |-> output_idx, idx |-> 0, done |-> FALSE]
                      ELSE loading_servers[n]]
            /\ output_idx' = output_idx + 1
            /\ rows' = Append(rows, [name |-> Head(rx).name,
                                     text |-> "Initializing", spinner |-> 0])
            /\ UNCHANGED <<thread, ticks>>
       ELSE EndThread("err")
    /\ UNCHANGED <<pc, global_file, local_file, mcp_servers, output, hasher,
                   pre_initialized, next_i, task, init_results, ri, clients,
                   load_tool_results, li, tool_specs, routed, orig, sanitized,
                   tx_alive, signals, log>>

\* LoadingMsg::Remove(name), lines 162-185
RecvRemove(written) ==
    /\ thread = "running"
    /\ rx # <<>>
    /\ Head(rx).kind = "Remove"
    /\ IF Head(rx).name \in DOMAIN loading_servers
       THEN LET entry == loading_servers[Head(rx).name]
            IN  IF written
                THEN /\ rx' = Tail(rx)
                     /\ loading_servers' =
                           [loading_servers EXCEPT ![Head(rx).name].done = TRUE]
                     /\ rows' = [rows EXCEPT ![RowAt(entry.pos)] =
                                    [name |-> Head(rx).name,
                                     text |-> "loaded", spinner |-> "done"]]
                     /\ UNCHANGED <<thread, output_idx, ticks>>
                ELSE EndThread("err")
       ELSE /\ written
            /\ rx' = Tail(rx)
            /\ UNCHANGED <<loading_servers, rows, thread, output_idx, ticks>>
    /\ UNCHANGED <<pc, global_file, local_file, mcp_servers, output, hasher,
                   pre_initialized, next_i, task, init_results, ri, clients,
                   load_tool_results, li, tool_specs, routed, orig, sanitized,
                   tx_alive, signals, log>>

\* the entries a timeout animates
Animated == {n \in DOMAIN loading_servers : ~loading_servers[n].done}

\* Err(RecvTimeoutError::Timeout), lines 187-202.  outcome "ok": every write and
\* the flush succeed; "err": a queue! fails; "panic": the flush fails
RecvTimeout(outcome) ==
    /\ thread = "running"
    /\ rx = <<>>
    /\ SendersAlive
    /\ ticks < MaxTicks
    /\ outcome # "ok" => Animated # {}
    /\ IF outcome = "ok"
       THEN /\ ticks' = ticks + 1
            /\ loading_servers' =
                  [n \in DOMAIN loading_servers |->
                      IF n \in Animated
                      THEN [loading_servers[n] EXCEPT !.idx = (@ + 1) % SPINNER_CHARS]
                      ELSE loading_servers[n]]
            /\ rows' = [r \in DOMAIN rows |->
                          IF \E n \in Animated : RowAt(loading_servers[n].pos) = r
                          THEN [rows[r] EXCEPT !.spinner =
                                  (loading_servers[
                                      CHOOSE n \in Animated :
                                          RowAt(loading_servers[n].pos) = r].idx + 1)
                                    % SPINNER_CHARS]
                          ELSE rows[r]]
            /\ UNCHANGED <<thread, rx, output_idx>>
       ELSE EndThread(IF outcome = "err" THEN "err" ELSE "panicked")
    /\ UNCHANGED <<pc, global_file, local_file, mcp_servers, output, hasher,
                   pre_initialized, next_i, task, init_results, ri, clients,
                   load_tool_results, li, tool_specs, routed, orig, sanitized,
                   tx_alive, signals, log>>

\* Err(RecvTimeoutError::Disconnected), line 203, and line 206
RecvDisconnected ==
    /\ thread = "running"
    /\ rx = <<>>
    /\ ~SendersAlive
    /\ EndThread("ok")
    /\ UNCHANGED <<pc, global_file, local_file, mcp_servers, output, hasher,
                   pre_initialized, next_i, task, init_results, ri, clients,
                   load_tool_results, li, tool_specs, routed, orig, sanitized,
                   tx_alive, signals, log>>

(***************************************************************************)
(* Lines 229-256: the insertion loop.  HashMap::insert stores the new      *)
(* value under the key and returns the value it replaced.                  *)
(***************************************************************************)
Arc(r, idx) == [server_name |-> r.name, cfg |-> r.cfg, arc |-> idx]

\* the collision loop that drops the client it dislodged
InsertClientOverwrite(map, name, client) ==
    IF name \in DOMAIN map THEN [map EXCEPT ![name] = client]
    ELSE map @@ (name :> client)

RECURSIVE InsertClientSuffixNewcomer(_, _, _)
\* the collision loop that suffixes the arriving client and leaves the occupant
InsertClientSuffixNewcomer(map, name, client) ==
    IF name \in DOMAIN map
    THEN InsertClientSuffixNewcomer(map, name \o <<"1">>, client)
    ELSE map @@ (name :> client)

RECURSIVE InsertClient(_, _, _)
\* lines 232-238
InsertClient(map, name, client) ==
    IF name \in DOMAIN map
    THEN InsertClient([map EXCEPT ![name] = client], name \o <<"1">>, map[name])
    ELSE map @@ (name :> client)

\* Ok(client), lines 231-239
InsertBooted ==
    /\ pc = "inserting"
    /\ ri < Len(init_results)
    /\ Boots(init_results[ri + 1].cfg)
    /\ clients' = InsertClient(clients, init_results[ri + 1].name,
                               Arc(init_results[ri + 1], ri + 1))
    /\ ri' = ri + 1
    /\ UNCHANGED <<pc, global_file, local_file, mcp_servers, output, hasher,
                   pre_initialized, next_i, task, init_results,
                   load_tool_results, li, tool_specs, routed, orig, sanitized,
                   display_vars, log>>

\* Err(e), lines 240-253: execute!(output, ..)? returns the write's error
ReportFailed(written) ==
    /\ pc = "inserting"
    /\ ri < Len(init_results)
    /\ ~Boots(init_results[ri + 1].cfg)
    /\ IF written
       THEN /\ output' = Append(output, [kind |-> "init_failed",
                                         name |-> init_results[ri + 1].name])
            /\ log' = Append(log, [kind |-> "init_failed",
                                   name |-> init_results[ri + 1].name])
            /\ ri' = ri + 1
            /\ pc' = pc
       ELSE /\ pc' = "init_error"
            /\ UNCHANGED <<output, ri, log>>
    /\ UNCHANGED <<global_file, local_file, mcp_servers, hasher,
                   pre_initialized, next_i, task, init_results, clients,
                   load_tool_results, li, tool_specs, routed, orig, sanitized,
                   display_vars>>

\* line 256
ReturnManager ==
    /\ pc = "inserting"
    /\ ri = Len(init_results)
    /\ pc' = "ready"
    /\ UNCHANGED <<global_file, local_file, mcp_servers, output, hasher,
                   pre_initialized, next_i, task, init_results, ri, clients,
                   load_tool_results, li, tool_specs, routed, orig, sanitized,
                   display_vars, log>>

(***************************************************************************)
(* ToolManager::load_tools, lines 259-306.                                 *)
(***************************************************************************)
NAMESPACE_DELIMITER == <<"_", "_", "_">>

fs_read == <<"f", "s", "_", "r", "e", "a", "d">>
fs_write == <<"f", "s", "_", "w", "r", "i", "t", "e">>
execute_bash == <<"e", "x", "e", "c", "u", "t", "e", "_", "b", "a", "s", "h">>
use_aws == <<"u", "s", "e", "_", "a", "w", "s">>
report_issue == <<"r", "e", "p", "o", "r", "t", "_", "i", "s", "s", "u", "e">>

\* the names the router reserves for the built-in tools, lines 318-322
BuiltinNames == {fs_read, fs_write, execute_bash, use_aws, report_issue}

\* the embedded catalog tools/tool_index.json, line 260: name -> ToolSpec
ToolIndex == [n \in BuiltinNames |-> [name |-> n, origin |-> "builtin", owner |-> 0]]

\* client.get_tool_spec(): the name the client was constructed with, and its specs
get_tool_spec(client) ==
    IF FetchOk(client.cfg)
    THEN [ok |-> TRUE, name |-> client.server_name,
          specs |-> DeclaredTools(client.cfg), owner |-> client.arc]
    ELSE [ok |-> FALSE]

\* line 285 without the delimiter
NamespacedNameNoDelimiter(name, tool) == name \o tool

\* line 285: format!("{}{}{}", name, NAMESPACE_DELIMITER, spec.name)
NamespacedName(name, tool) == name \o NAMESPACE_DELIMITER \o tool

RECURSIVE InsertSpecs(_, _, _, _)
\* lines 284-287
InsertSpecs(map, name, specs, owner) ==
    IF specs = <<>> THEN map
    ELSE LET full == NamespacedName(name, Head(specs))
             spec == [name |-> full, origin |-> Head(specs), owner |-> owner]
             next == IF full \in DOMAIN map
                     THEN [map EXCEPT ![full] = spec]
                     ELSE map @@ (full :> spec)
         IN  InsertSpecs(next, name, Tail(specs), owner)

\* lines 260-277: the catalog is parsed and every client is asked for its specs;
\* the results arrive in any order
LoadToolsFetch ==
    /\ pc = "ready"
    /\ tool_specs' = ToolIndex
    /\ \E order \in Orders(DOMAIN clients) :
          load_tool_results' =
              [i \in DOMAIN order |->
                  [server_name |-> order[i], result |-> get_tool_spec(clients[order[i]])]]
    /\ li' = 0
    /\ pc' = "loading"
    /\ UNCHANGED <<global_file, local_file, mcp_servers, output, hasher,
                   pre_initialized, next_i, task, init_results, ri, clients,
                   routed, orig, sanitized,
                   display_vars, log>>

\* Ok((name, specs)), lines 280-288
LoadToolsInsert ==
    /\ pc = "loading"
    /\ li < Len(load_tool_results)
    /\ load_tool_results[li + 1].result.ok
    /\ LET res == load_tool_results[li + 1].result
       IN  tool_specs' = InsertSpecs(tool_specs, res.name, res.specs, res.owner)
    /\ li' = li + 1
    /\ UNCHANGED <<pc, global_file, local_file, mcp_servers, output, hasher,
                   pre_initialized, next_i, task, init_results, ri, clients,
                   load_tool_results, routed, orig, sanitized,
                   display_vars, log>>

\* Err(e), lines 289-302: execute!(output, ..)? returns the write's error
LoadToolsReport(written) ==
    /\ pc = "loading"
    /\ li < Len(load_tool_results)
    /\ ~load_tool_results[li + 1].result.ok
    /\ IF written
       THEN /\ output' = Append(output, [kind |-> "spec_failed",
                                         name |-> load_tool_results[li + 1].server_name])
            /\ log' = Append(log, [kind |-> "spec_failed",
                                   name |-> load_tool_results[li + 1].server_name])
            /\ li' = li + 1
            /\ pc' = pc
       ELSE /\ pc' = "load_error"
            /\ UNCHANGED <<output, li, log>>
    /\ UNCHANGED <<global_file, local_file, mcp_servers, hasher,
                   pre_initialized, next_i, task, init_results, ri, clients,
                   load_tool_results, tool_specs, routed, orig, sanitized,
                   display_vars>>

\* line 305
LoadToolsReturn ==
    /\ pc = "loading"
    /\ li = Len(load_tool_results)
    /\ pc' = "loaded"
    /\ UNCHANGED <<global_file, local_file, mcp_servers, output, hasher,
                   pre_initialized, next_i, task, init_results, ri, clients,
                   load_tool_results, li, tool_specs, routed, orig, sanitized,
                   display_vars, log>>

(***************************************************************************)
(* ToolManager::get_tool_from_tool_use, lines 308-359.                     *)
(***************************************************************************)
\* whether s holds the delimiter at position i
DelimiterAt(s, i) ==
    /\ i + Len(NAMESPACE_DELIMITER) - 1 <= Len(s)
    /\ SubSeq(s, i, i + Len(NAMESPACE_DELIMITER) - 1) = NAMESPACE_DELIMITER

DelimiterPositions(s) == {i \in 1..Len(s) : DelimiterAt(s, i)}

Min(S) == CHOOSE x \in S : \A y \in S : x <= y

\* the split at the last occurrence of the delimiter
rsplit_once(s) ==
    IF DelimiterPositions(s) = {} THEN [found |-> FALSE]
    ELSE LET i == CHOOSE x \in DelimiterPositions(s) :
                      \A y \in DelimiterPositions(s) : y <= x
         IN  [found |-> TRUE,
              server_name |-> SubSeq(s, 1, i - 1),
              tool_name |-> SubSeq(s, i + Len(NAMESPACE_DELIMITER), Len(s))]

\* name.split_once(NAMESPACE_DELIMITER), line 325: the split at the first occurrence
split_once(s) ==
    IF DelimiterPositions(s) = {} THEN [found |-> FALSE]
    ELSE LET i == Min(DelimiterPositions(s))
         IN  [found |-> TRUE,
              server_name |-> SubSeq(s, 1, i - 1),
              tool_name |-> SubSeq(s, i + Len(NAMESPACE_DELIMITER), Len(s))]

\* serde_json::from_value::<T>(args) for the parameter type T of a built-in: the
\* arguments deserialize when they have the shape of that tool's parameters
Deserializes(builtin, args) == args.shape = builtin

\* the ToolResult of lines 309-315, 325-331 and 333-339
ErrorResult(id, text) ==
    [ok |-> FALSE, tool_use_id |-> id, content |-> text, status |-> "Error"]

\* lines 318-322 with the error result keeping no correlation id
BuiltinToolNoId(value) ==
    IF Deserializes(value.name, value.args)
    THEN [ok |-> TRUE, kind |-> value.name, args |-> value.args]
    ELSE ErrorResult("", <<"Failed to validate tool parameters">>)

\* lines 318-322
BuiltinTool(value) ==
    IF Deserializes(value.name, value.args)
    THEN [ok |-> TRUE, kind |-> value.name, args |-> value.args]
    ELSE ErrorResult(value.id, <<"Failed to validate tool parameters">>)

\* lines 324-357 sending the name as it came, not the part after the delimiter
CustomToolUnsplit(map, value) ==
    LET parts == split_once(value.name)
    IN  IF ~parts.found
        THEN ErrorResult(value.id, <<"is supplied with incorrect name", value.name>>)
        ELSE IF parts.server_name \notin DOMAIN map
        THEN ErrorResult(value.id,
                         <<"is not supported by the client", parts.server_name>>)
        ELSE [ok |-> TRUE, kind |-> "Custom",
              name |-> value.name,
              client |-> map[parts.server_name],
              method |-> "tools/call",
              params |-> [name |-> value.name, arguments |-> value.args]]

\* lines 324-357 falling back to some client when the provider is unknown
CustomToolAnyClient(map, value) ==
    LET parts == split_once(value.name)
    IN  IF ~parts.found /\ map = NoMap
        THEN ErrorResult(value.id, <<"is supplied with incorrect name", value.name>>)
        ELSE [ok |-> TRUE, kind |-> "Custom",
              name |-> IF parts.found THEN parts.tool_name ELSE value.name,
              client |-> IF parts.found /\ parts.server_name \in DOMAIN map
                         THEN map[parts.server_name]
                         ELSE IF map = NoMap THEN NoValue
                         ELSE map[CHOOSE k \in DOMAIN map : TRUE],
              method |-> "tools/call",
              params |-> [name |-> IF parts.found THEN parts.tool_name ELSE value.name,
                          arguments |-> value.args]]

\* lines 324-357
CustomToolCall(map, value) ==
    LET parts == split_once(value.name)
    IN  IF ~parts.found
        THEN ErrorResult(value.id, <<"is supplied with incorrect name", value.name>>)
        ELSE IF parts.server_name \notin DOMAIN map
        THEN ErrorResult(value.id,
                         <<"is not supported by the client", parts.server_name>>)
        ELSE [ok |-> TRUE, kind |-> "Custom",
              name |-> parts.tool_name,
              client |-> map[parts.server_name],
              method |-> "tools/call",
              params |-> [name |-> parts.tool_name, arguments |-> value.args]]

\* the match of line 317
get_tool_from_tool_use(map, value) ==
    IF value.name \in BuiltinNames THEN BuiltinTool(value)
    ELSE CustomToolCall(map, value)

\* the tool names an invocation may carry after the delimiter
ToolNames == {<<"t">>, <<"_", "t">>, <<"u", "_", "_", "_", "x">>}
\* provider names no client is registered under
UnknownProviders == {<<"x">>, <<"a", "_">>}
\* names without the delimiter that are no built-in name
UndelimitedNames == {<<"t">>, <<"a", "_", "_", "t">>, <<>>}

InvocationNames(map) ==
    BuiltinNames
      \cup {NamespacedName(p, t) : p \in DOMAIN map \cup UnknownProviders, t \in ToolNames}
      \cup UndelimitedNames

InvocationIds == {"id1", "id2"}

\* ToolUse.args: a JSON value; `shape` names the built-in whose parameter type it has
ArgValues(name) ==
    {[shape |-> n, body |-> "Paris"] : n \in ({name} \cap BuiltinNames) \cup {fs_read, <<>>}}

ToolUses(map) ==
    {[id |-> id, name |-> n, args |-> a] :
        id \in InvocationIds, n \in InvocationNames(map), a \in ArgValues(<<>>)}
      \cup {[id |-> id, name |-> n, args |-> [shape |-> n, body |-> "Paris"]] :
              id \in InvocationIds, n \in BuiltinNames}

\* the caller routes an invocation once the tools were loaded
Route(value) ==
    /\ pc = "loaded"
    /\ routed' = [value |-> value, result |-> get_tool_from_tool_use(clients, value)]
    /\ pc' = "routed"
    /\ UNCHANGED <<global_file, local_file, mcp_servers, output, hasher,
                   pre_initialized, next_i, task, init_results, ri, clients,
                   load_tool_results, li, tool_specs, orig, sanitized,
                   display_vars, log>>

\* the caller has taken the routed tool and waits for the next invocation
TakeRouted ==
    /\ pc = "routed"
    /\ routed' = NoValue
    /\ pc' = "loaded"
    /\ UNCHANGED <<global_file, local_file, mcp_servers, output, hasher,
                   pre_initialized, next_i, task, init_results, ri, clients,
                   load_tool_results, li, tool_specs, orig, sanitized,
                   display_vars, log>>

(***************************************************************************)
(* McpServerConfig::load_config, lines 63-97.  A source is absent, present *)
(* but unreadable, present with bytes that do not parse, or present with a *)
(* well-formed provider map.                                               *)
(***************************************************************************)
\* raw provider names: three that sanitize to the same name, one that sanitizes to
\* that name followed by "1", and two without a letter
RawNames == {<<"a", "_", "1">>, <<"A", "_", "1">>, <<"a", "-", "1">>,
             <<"a", "_", "1", "1">>, <<"!">>, <<"-">>}
FileConfigs == {"X", "Y"}

ProviderMaps(names, configs, n) ==
    UNION {[S -> configs] : S \in {T \in SUBSET names : Cardinality(T) <= n}}

FileStates ==
    {[kind |-> "absent"], [kind |-> "unreadable"], [kind |-> "malformed"]}
      \cup {[kind |-> "content", servers |-> m] :
              m \in ProviderMaps(RawNames, FileConfigs, MaxFileEntries)}

\* tokio::fs::read(path).await.ok(), lines 68-69: every read error gives None
ReadOk(file) ==
    IF file.kind \in {"absent", "unreadable"} THEN [some |-> FALSE]
    ELSE [some |-> TRUE, buf |-> file]

\* serde_json::from_slice::<Self>(&buf)
FromSlice(buf) ==
    IF buf.kind = "content" THEN [ok |-> TRUE, servers |-> buf.servers]
    ELSE [ok |-> FALSE]

\* lines 74-88 with the global entry kept on a conflict
MergeFromGlobalWins(global, local, order, i, notices) ==
    [servers |-> [n \in DOMAIN global \cup DOMAIN local |->
                    IF n \in DOMAIN global THEN global[n] ELSE local[n]],
     notices |-> [k \in 1..Cardinality(DOMAIN global \cap DOMAIN local) |->
                    [kind |-> "conflict", name |-> order[k]]]]

RECURSIVE MergeFrom(_, _, _, _, _)
\* lines 74-88: every local entry is inserted into the global map, in the local
\* map's iteration order; an insert that replaces an entry queues a notice
MergeFrom(global, local, order, i, notices) ==
    IF i > Len(order) THEN [servers |-> global, notices |-> notices]
    ELSE IF order[i] \in DOMAIN global
    THEN MergeFrom([global EXCEPT ![order[i]] = local[order[i]]], local, order, i + 1,
                   Append(notices, [kind |-> "conflict", name |-> order[i]]))
    ELSE MergeFrom(global @@ (order[i] :> local[order[i]]), local, order, i + 1, notices)

\* the orders of the local map in which the conflicting names come first: the
\* notices are the only trace the iteration order leaves
LocalOrders(global, local) ==
    {o \in Orders(DOMAIN local) :
        \A i, j \in DOMAIN o :
            (o[i] \in DOMAIN global /\ o[j] \notin DOMAIN global) => i < j}

\* failed_write = 0: every write to `output` succeeds; k > 0: the k-th write (a
\* queued notice, or the flush of line 95 after them) fails and `?` returns.
\* pc tells the error returned: "config_error" for a source that does not parse,
\* "write_error" for a failed write
LoadConfig(failed_write) ==
    /\ pc = "load_config"
    /\ LET global_buf == ReadOk(global_file)
           local_buf == ReadOk(local_file)
           g == IF global_buf.some THEN FromSlice(global_buf.buf) ELSE [ok |-> TRUE, servers |-> NoMap]
           l == IF local_buf.some THEN FromSlice(local_buf.buf) ELSE [ok |-> TRUE, servers |-> NoMap]
       IN  IF ~g.ok \/ ~l.ok
           THEN /\ failed_write = 0
                /\ pc' = "config_error"
                /\ UNCHANGED <<mcp_servers, output>>
           ELSE \E order \in LocalOrders(g.servers, l.servers) :
                  LET merged == IF global_buf.some /\ local_buf.some
                                THEN MergeFrom(g.servers, l.servers, order, 1, <<>>)
                                ELSE IF local_buf.some
                                THEN [servers |-> l.servers, notices |-> <<>>]
                                ELSE [servers |-> g.servers, notices |-> <<>>]
                  IN  /\ failed_write <= Len(merged.notices) + 1
                      /\ IF failed_write = 0
                         THEN /\ output' = output \o merged.notices
                              /\ mcp_servers' = merged.servers
                              /\ pc' = "from_configs"
                         ELSE /\ output' = output \o SubSeq(merged.notices, 1, failed_write - 1)
                              /\ pc' = "write_error"
                              /\ UNCHANGED mcp_servers
    /\ UNCHANGED <<global_file, local_file, hasher,
                   pre_initialized, next_i, task, init_results, ri, clients,
                   load_tool_results, li, tool_specs, routed, orig, sanitized,
                   display_vars, log>>

(***************************************************************************)
(* A call of sanitize_server_name on its own, with the hasher left by the  *)
(* calls before it.                                                        *)
(***************************************************************************)
NameAlphabet == {"a", "1", "_", "!"}

SanitizeCall(o) ==
    /\ pc \in {"sanitize", "sanitized"}
    /\ pc' = "sanitized"
    /\ orig' = o
    /\ sanitized' = sanitize_server_name(o, hasher).name
    /\ hasher' = sanitize_server_name(o, hasher).hasher
    /\ UNCHANGED <<global_file, local_file, mcp_servers, output,
                   pre_initialized, next_i, task, init_results, ri, clients,
                   load_tool_results, li, tool_specs, routed,
                   display_vars, log>>

(***************************************************************************)
(* The specifications.                                                     *)
(***************************************************************************)
FilesIdle ==
    /\ global_file = [kind |-> "absent"]
    /\ local_file = [kind |-> "absent"]

BootIdle ==
    /\ pre_initialized = <<>>
    /\ next_i = 0
    /\ task = <<>>
    /\ init_results = <<>>
    /\ ri = 0
    /\ clients = NoMap

ToolsIdle ==
    /\ load_tool_results = <<>>
    /\ li = 0
    /\ tool_specs = NoMap
    /\ routed = NoValue

SanitizeIdle ==
    /\ orig = <<>>
    /\ sanitized = <<>>

\* no display thread was spawned
DisplayIdle ==
    /\ rx = <<>>
    /\ thread = "none"
    /\ tx_alive = FALSE
    /\ output_idx = 0
    /\ loading_servers = NoMap
    /\ rows = <<>>
    /\ ticks = 0
    /\ signals = <<>>

\* for the bootstrap a configuration is one whose start succeeds or one whose
\* start fails
BootConfigs == {"X", "F"}
\* the raw provider names of a manager that routes: two that collide, one of them
\* ending in a separator, and one that is the name of a built-in tool
RouteNames == {<<"a">>, <<"A", "_">>, fs_read}

\* no signal waits in the channel
Quiet == rx = <<>>

\* from_configs is entered with a configuration of at most MaxProviders providers
Init ==
    /\ pc = "from_configs"
    /\ mcp_servers \in ProviderMaps(RawNames, BootConfigs, MaxProviders)
    /\ output = <<>>
    /\ hasher = HasherNew
    /\ FilesIdle /\ BootIdle /\ ToolsIdle /\ SanitizeIdle /\ DisplayIdle
    /\ log = <<>>

\* The display thread shares nothing with from_configs but the channel and the
\* join.  Where the client map is what is followed, the thread is prompt: it
\* handles each signal before the caller's next step, and its writes succeed.
\* SpecDisplay leaves the thread's schedule and its writes free.
Next ==
    \/ Quiet /\ Prepare
    \/ Quiet /\ Submit
    \/ Quiet /\ \E i \in DOMAIN task : StartTask(i)
    \/ Quiet /\ \E i \in DOMAIN task : CompleteTask(i)
    \/ Quiet /\ DropSenders
    \/ Quiet /\ Join
    \/ Quiet /\ InsertBooted
    \/ Quiet /\ \E written \in BOOLEAN : ReportFailed(written)
    \/ Quiet /\ ReturnManager
    \/ RecvAdd(TRUE)
    \/ RecvRemove(TRUE)
    \/ RecvDisconnected

Spec == Init /\ [][Next]_vars

\* the manager of a small configuration is built, asked for its tools and routes
\* invocations
InitRoute ==
    /\ pc = "from_configs"
    /\ mcp_servers \in ProviderMaps(RouteNames, Configs, MaxRouteProviders)
    /\ output = <<>>
    /\ hasher = HasherNew
    /\ FilesIdle /\ BootIdle /\ ToolsIdle /\ SanitizeIdle /\ DisplayIdle
    /\ log = <<>>

NextRoute ==
    \/ Next
    \/ LoadToolsFetch
    \/ LoadToolsInsert
    \/ \E written \in BOOLEAN : LoadToolsReport(written)
    \/ LoadToolsReturn
    \/ \E value \in ToolUses(clients) : Route(value)
    \/ TakeRouted

SpecRoute == InitRoute /\ [][NextRoute]_vars

\* from_configs after line 209 with more providers than the concurrency width:
\* providers whose raw names differ only in case and separators, the first of
\* which fails to start.  The terminal of this bootstrap is closed: the display
\* thread ends at its first write and the signals sent after that are dropped.
InitCap ==
    /\ pc = "booting"
    /\ mcp_servers = NoMap
    /\ output = <<>>
    /\ hasher = HasherNew
    /\ \E n \in {0, MaxBootProviders} :
          /\ pre_initialized = [i \in 1..n |->
                                  [name |-> <<"a">>, cfg |-> IF i = 1 THEN "F" ELSE "X"]]
          /\ task = [i \in 1..n |-> "unpolled"]
          /\ signals = [i \in 1..n |-> <<>>]
    /\ next_i = 0
    /\ init_results = <<>>
    /\ ri = 0
    /\ clients = NoMap
    /\ rx = <<>>
    /\ thread = "running"
    /\ tx_alive = TRUE
    /\ output_idx = 0
    /\ loading_servers = NoMap
    /\ rows = <<>>
    /\ ticks = 0
    /\ log = <<>>
    /\ FilesIdle /\ ToolsIdle /\ SanitizeIdle

NextCap ==
    \/ Quiet /\ Submit
    \/ Quiet /\ \E i \in DOMAIN task : StartTask(i)
    \/ Quiet /\ \E i \in DOMAIN task : CompleteTask(i)
    \/ Quiet /\ DropSenders
    \/ Quiet /\ Join
    \/ Quiet /\ InsertBooted
    \/ Quiet /\ \E written \in BOOLEAN : ReportFailed(written)
    \/ Quiet /\ ReturnManager
    \/ RecvAdd(FALSE)
    \/ RecvDisconnected

SpecCap == InitCap /\ [][NextCap]_vars

\* the raw provider names of a bootstrap whose display is followed: two that
\* sanitize to the same name and one to another
DisplayNames == {<<"a">>, <<"A">>, <<"b">>}

\* from_configs is entered with at most MaxDisplayProviders providers; the display
\* thread runs whenever it can and any of its writes may fail
InitDisplay ==
    /\ pc = "from_configs"
    /\ mcp_servers \in ProviderMaps(DisplayNames, BootConfigs, MaxDisplayProviders)
    /\ output = <<>>
    /\ hasher = HasherNew
    /\ FilesIdle /\ BootIdle /\ ToolsIdle /\ SanitizeIdle /\ DisplayIdle
    /\ log = <<>>

NextDisplay ==
    \/ Prepare
    \/ Submit
    \/ \E i \in DOMAIN task : StartTask(i)
    \/ \E i \in DOMAIN task : CompleteTask(i)
    \/ DropSenders
    \/ Join
    \/ InsertBooted
    \/ \E written \in BOOLEAN : ReportFailed(written)
    \/ ReturnManager
    \/ \E written \in BOOLEAN : RecvAdd(written)
    \/ \E written \in BOOLEAN : RecvRemove(written)
    \/ \E outcome \in {"ok", "err", "panic"} : RecvTimeout(outcome)
    \/ RecvDisconnected

SpecDisplay == InitDisplay /\ [][NextDisplay]_vars

\* The executor polls every future that can make progress, every start of a
\* provider completes, and the operating system schedules the display thread.
\* Nothing makes a receive time out.
FairDisplay ==
    /\ WF_vars(Prepare)
    /\ WF_vars(Submit)
    /\ WF_vars(\E i \in DOMAIN task : StartTask(i))
    /\ WF_vars(\E i \in DOMAIN task : CompleteTask(i))
    /\ WF_vars(DropSenders)
    /\ WF_vars(Join)
    /\ WF_vars(InsertBooted)
    /\ WF_vars(\E written \in BOOLEAN : ReportFailed(written))
    /\ WF_vars(ReturnManager)
    /\ WF_vars(\E written \in BOOLEAN : RecvAdd(written))
    /\ WF_vars(\E written \in BOOLEAN : RecvRemove(written))
    /\ WF_vars(RecvDisconnected)

SpecDisplayFair == InitDisplay /\ [][NextDisplay]_vars /\ FairDisplay

\* load_config is entered with the two sources in any state
InitConfig ==
    /\ pc = "load_config"
    /\ global_file \in FileStates
    /\ local_file \in FileStates
    /\ mcp_servers = NoMap
    /\ output = <<>>
    /\ hasher = HasherNew
    /\ BootIdle /\ ToolsIdle /\ SanitizeIdle /\ DisplayIdle
    /\ log = <<>>

NextConfig == \E failed_write \in 0..(MaxFileEntries + 2) : LoadConfig(failed_write)

SpecConfig == InitConfig /\ [][NextConfig]_vars

\* sanitize_server_name is called on any string, any number of times
InitSanitize ==
    /\ pc = "sanitize"
    /\ mcp_servers = NoMap
    /\ output = <<>>
    /\ hasher = HasherNew
    /\ FilesIdle /\ BootIdle /\ ToolsIdle /\ SanitizeIdle /\ DisplayIdle
    /\ log = <<>>

NextSanitize == \E o \in StringsUpTo(NameAlphabet, MaxNameLen) : SanitizeCall(o)

SpecSanitize == InitSanitize /\ [][NextSanitize]_vars

(***************************************************************************)
(* The properties.                                                         *)
(***************************************************************************)
\* from_configs has returned Ok(Self { clients })
ManagerBuilt == pc \in {"ready", "loading", "loaded", "routed", "load_error"}

\* the positions of init_results whose start succeeded
BootedResults == {i \in 1..Len(init_results) : Boots(init_results[i].cfg)}

\* the providers that were given the sanitized name n
ProvidersNamed(n) == {i \in DOMAIN pre_initialized : pre_initialized[i].name = n}

\* exactly two providers share the sanitized name n and both started
TwoBootedShare(n) ==
    /\ Cardinality(ProvidersNamed(n)) = 2
    /\ \A i \in ProvidersNamed(n) : Boots(pre_initialized[i].cfg)

\* C1: once from_configs has returned, every client whose start succeeded is the
\* value of exactly one key of the client map and the map holds nothing else, in
\* every completion order; when exactly two providers share the sanitized name n
\* and both started, n and n followed by "1" are keys and hold different clients.
C1_EveryBootedClientHeldOnce ==
    ManagerBuilt =>
        /\ \A i \in BootedResults :
              Cardinality({k \in DOMAIN clients :
                              clients[k] = [server_name |-> init_results[i].name,
                                            cfg |-> init_results[i].cfg,
                                            arc |-> i]}) = 1
        /\ Cardinality(DOMAIN clients) = Cardinality(BootedResults)
        /\ \A i \in DOMAIN pre_initialized :
              LET n == pre_initialized[i].name
              IN  TwoBootedShare(n) =>
                      /\ n \in DOMAIN clients
                      /\ (n \o <<"1">>) \in DOMAIN clients
                      /\ clients[n].arc # clients[n \o <<"1">>].arc

\* C1's case: the manager was built from two started providers of one name
C1_Witness ==
    /\ pc = "ready"
    /\ \E i \in DOMAIN pre_initialized : TwoBootedShare(pre_initialized[i].name)
    /\ Len(init_results) = 3

\* C2: a start that failed never aborts the batch: from_configs never returns an
\* error, and the manager it returns holds exactly the clients whose start
\* succeeded.
C2_BootFailureNeverAborts ==
    /\ pc # "init_error"
    /\ ManagerBuilt => {clients[k].arc : k \in DOMAIN clients} = BootedResults

\* C3: at no time are more than 10 providers started (Add sent) and not yet
\* completed (Remove not sent), however many providers are configured.
C3_AtMostTenStartsInFlight ==
    Cardinality({i \in DOMAIN task : task[i] = "running"}) <= 10

\* C3's case: a provider beyond the tenth has begun its start, which fills the
\* width again
C3_Witness ==
    /\ \E i \in DOMAIN task : i > 10 /\ task[i] = "running"
    /\ Cardinality({i \in DOMAIN task : task[i] = "running"}) = 10

\* C4: an invocation named p ___ t, p a key of the client map and the name no
\* built-in name, is routed to a remote call that carries the client stored under
\* p, the tool name t, the method "tools/call" and the params
\* {name: t, arguments: args} with the arguments as they came.
C4_NamespacedNameRoutesToItsClient ==
    pc = "routed" =>
        \A p \in DOMAIN clients : \A t \in ToolNames :
            (/\ routed.value.name = p \o <<"_", "_", "_">> \o t
             /\ routed.value.name \notin BuiltinNames)
            => routed.result = [ok |-> TRUE, kind |-> "Custom", name |-> t,
                                client |-> clients[p], method |-> "tools/call",
                                params |-> [name |-> t,
                                            arguments |-> routed.value.args]]

\* C4's case: an invocation was routed to the client of a displaced key
C4_Witness ==
    /\ pc = "routed"
    /\ routed.result.ok
    /\ routed.result.kind = "Custom"
    /\ routed.value.name = <<"a", "1", "_", "_", "_", "_", "t">>

\* C5: an invocation whose name is a reserved built-in name is routed to that
\* built-in and never to a client: arguments that deserialize give the built-in
\* tool, arguments that do not give an error result with the invocation's id and
\* the status Error.
C5_ReservedNamesRouteToBuiltins ==
    (pc = "routed" /\ routed.value.name \in BuiltinNames) =>
        IF Deserializes(routed.value.name, routed.value.args)
        THEN /\ routed.result.ok
             /\ routed.result.kind = routed.value.name
             /\ routed.result.args = routed.value.args
        ELSE /\ ~routed.result.ok
             /\ routed.result.tool_use_id = routed.value.id
             /\ routed.result.status = "Error"

\* C5's case: fs_read with arguments that do not deserialize was routed by a
\* manager that holds a client under the key fs_read
C5_Witness ==
    /\ pc = "routed"
    /\ routed.value.name = fs_read
    /\ ~routed.result.ok
    /\ fs_read \in DOMAIN clients

\* the first position of the delimiter in s, 0 when s does not hold it
FirstDelimiter(s) ==
    IF \E i \in 1..(Len(s) - 2) : SubSeq(s, i, i + 2) = <<"_", "_", "_">>
    THEN CHOOSE i \in 1..(Len(s) - 2) :
            /\ SubSeq(s, i, i + 2) = <<"_", "_", "_">>
            /\ \A j \in 1..(i - 1) : SubSeq(s, j, j + 2) # <<"_", "_", "_">>
    ELSE 0

\* C6: for a name that is no built-in name, a name without the delimiter gives an
\* error result saying the name is incorrect, and a name whose part before the
\* first delimiter is no key of the client map gives an error result saying the
\* provider is not supported; both carry the invocation's id and the status Error,
\* and neither is a remote call.
C6_MalformedOrUnknownNamesYieldErrors ==
    (pc = "routed" /\ routed.value.name \notin BuiltinNames) =>
        LET name == routed.value.name
            at == FirstDelimiter(name)
        IN  /\ at = 0 =>
                  routed.result =
                      [ok |-> FALSE, tool_use_id |-> routed.value.id,
                       content |-> <<"is supplied with incorrect name", name>>,
                       status |-> "Error"]
            /\ (at > 0 /\ SubSeq(name, 1, at - 1) \notin DOMAIN clients) =>
                  routed.result =
                      [ok |-> FALSE, tool_use_id |-> routed.value.id,
                       content |-> <<"is not supported by the client",
                                     SubSeq(name, 1, at - 1)>>,
                       status |-> "Error"]

\* C6's case: a manager that holds clients was given the name of an unknown
\* provider
C6_Witness ==
    /\ pc = "routed"
    /\ clients # NoMap
    /\ ~routed.result.ok
    /\ routed.result.content[1] = "is not supported by the client"

WellFormed(file) == file.kind \in {"absent", "content"}
\* a source that is there and cannot be used
Broken(file) == file.kind \in {"malformed", "unreadable"}
\* the providers of a source, none for an absent one
ServersOf(file) == IF file.kind = "content" THEN file.servers ELSE NoMap

\* the global providers overridden by the local ones
Overridden(global, local) ==
    [n \in DOMAIN global \cup DOMAIN local |->
        IF n \in DOMAIN local THEN local[n] ELSE global[n]]

\* `output` holds one conflict notice for each name of both sources, and no other
OneNoticePerConflict ==
    LET both == DOMAIN ServersOf(global_file) \cap DOMAIN ServersOf(local_file)
    IN  /\ Len(output) = Cardinality(both)
        /\ \A n \in both :
              \E i \in DOMAIN output : output[i] = [kind |-> "conflict", name |-> n]

\* load_config returned the merged configuration and wrote its notices
ReturnedMerged ==
    /\ pc = "from_configs"
    /\ mcp_servers = Overridden(ServersOf(global_file), ServersOf(local_file))
    /\ OneNoticePerConflict

C9_BrokenSourceIsFatal ==
    (pc # "load_config" /\ (Broken(global_file) \/ Broken(local_file)))
        => pc \in {"config_error", "write_error"}

\* the string holds only decimal digits, and at least one
IsDecimal(s) ==
    /\ s # <<>>
    /\ \A i \in DOMAIN s : \E d \in DOMAIN DigitChars : s[i] = DigitChars[d]

\* C10: what sanitize_server_name returns is the decimal fallback, and then no
\* character of the input passes the pattern, or a string that as a whole is a
\* letter followed by letters, digits and underscores.
C10_SanitizedNameMatchesPattern ==
    pc = "sanitized" =>
        \/ /\ IsDecimal(sanitized)
           /\ \A i \in DOMAIN orig : ~IsLetter(orig[i])
        \/ /\ sanitized # <<>>
           /\ IsLetter(sanitized[1])
           /\ \A i \in 2..Len(sanitized) : IsWordChar(sanitized[i])


\* C11: a name that as a whole matches the pattern (a letter followed by letters,
\* digits or underscores) is returned unchanged by sanitize_server_name, and the
\* call leaves the shared hasher as it was.
C11_ValidNameIsFixedPoint ==
    [][(pc' = "sanitized" /\ MatchesPattern(orig'))
          => (sanitized' = orig' /\ hasher' = hasher)]_vars

\* C11's case: a valid name holding a digit and an underscore was sanitized after
\* an earlier call had advanced the hasher
C11_Witness ==
    /\ pc = "sanitized"
    /\ MatchesPattern(orig)
    /\ \E k \in DOMAIN orig : ~IsLetter(orig[k])
    /\ hasher # HasherNew

\* k characters "1"
Ones(k) == [j \in 1..k |-> "1"]

\* m is n followed by one or more "1"
IsOnesSuffixOf(m, n) ==
    /\ Len(m) > Len(n)
    /\ SubSeq(m, 1, Len(n)) = n
    /\ \A k \in (Len(n) + 1)..Len(m) : m[k] = "1"

\* the results named n whose start succeeded, by their place in the processing order
BootedNamed(n) ==
    {i \in DOMAIN init_results : init_results[i].name = n /\ Boots(init_results[i].cfg)}

\* no provider besides the booted clients named n uses n or n followed by "1"s
OnlySharersUse(n) ==
    \A i \in DOMAIN init_results \ BootedNamed(n) :
        /\ init_results[i].name # n
        /\ ~IsOnesSuffixOf(init_results[i].name, n)

\* nor is n the name of another provider followed by "1"s
NoShorterName(n) ==
    \A i \in DOMAIN init_results : ~IsOnesSuffixOf(n, init_results[i].name)

\* the newest booted client named n is under n, each earlier one under n followed
\* by as many "1" as booted clients named n arrived after it
NewestUnsuffixed(n) ==
    \A i \in BootedNamed(n) :
        LET later == Cardinality({j \in BootedNamed(n) : j > i})
            key == n \o Ones(later)
        IN  key \in DOMAIN clients /\ clients[key].arc = i

\* C12 as stated: when the booted clients c1..ck share the name n and no other
\* provider uses n or n followed by "1"s, ck ends under n and each ci under n
\* followed by k-i characters "1".
C12_EvictAndResuffix ==
    ManagerBuilt =>
        \A i \in DOMAIN init_results :
            OnlySharersUse(init_results[i].name) => NewestUnsuffixed(init_results[i].name)

\* C12, amended: the same when, besides, n is not itself the name of another
\* provider followed by "1"s (a client evicted from that shorter key would land
\* among the keys of the group).
C12_EvictAndResuffixIsolated ==
    ManagerBuilt =>
        \A i \in DOMAIN init_results :
            (OnlySharersUse(init_results[i].name) /\ NoShorterName(init_results[i].name))
                => NewestUnsuffixed(init_results[i].name)

\* C12's case: three booted clients shared one name and were inserted
C12_Witness ==
    /\ ManagerBuilt
    /\ \E i \in DOMAIN init_results :
          /\ OnlySharersUse(init_results[i].name)
          /\ NoShorterName(init_results[i].name)
          /\ Cardinality(BootedNamed(init_results[i].name)) = 3

\* the insertion loop stores a booted client whose name is a key of the map
ArrivesAtOccupiedKey ==
    /\ pc = "inserting"
    /\ ri < Len(init_results)
    /\ ri' = ri + 1
    /\ Boots(init_results[ri + 1].cfg)
    /\ init_results[ri + 1].name \in DOMAIN clients

\* C13 as stated: when a booted client arrives under an occupied key, the occupant
\* keeps the key and the new arrival is stored under the name followed by "1"s.
C13_OccupantKeepsKey ==
    [][ArrivesAtOccupiedKey =>
          LET n == init_results[ri + 1].name
          IN  /\ clients'[n] = clients[n]
              /\ \E j \in 1..Len(init_results) :
                    /\ n \o Ones(j) \in DOMAIN clients'
                    /\ clients'[n \o Ones(j)].arc = ri + 1]_vars

\* C13, amended: when a booted client arrives under an occupied key, the new
\* arrival takes the key and the client that occupied it is stored under the key
\* followed by one "1".
C13_ArrivalTakesKey ==
    [][ArrivesAtOccupiedKey =>
          LET n == init_results[ri + 1].name
          IN  /\ clients'[n].arc = ri + 1
              /\ n \o <<"1">> \in DOMAIN clients'
              /\ clients'[n \o <<"1">>] = clients[n]]_vars

\* C13's case: a later arrival holds a key and an earlier client constructed with
\* that name is under the key followed by "1"
C13_Witness ==
    /\ ManagerBuilt
    /\ \E n \in DOMAIN clients :
          /\ n \o <<"1">> \in DOMAIN clients
          /\ clients[n \o <<"1">>].server_name = n
          /\ clients[n].server_name = n
          /\ clients[n \o <<"1">>].arc < clients[n].arc

\* s holds the substring "___"
ContainsDelimiter(s) == DelimiterPositions(s) # {}

\* C14: for a key p of the client map that holds no "___", routing p + "___" + t
\* targets the client stored under p with tool name exactly t when t holds no
\* "___", and when t holds one the tool name is still everything after the first
\* occurrence in the routed name, which is t.
C14_NamespacingRoundTrips ==
    pc = "routed" =>
        \A p \in DOMAIN clients : \A t \in ToolNames :
            (routed.value.name = NamespacedName(p, t) /\ ~ContainsDelimiter(p)) =>
                /\ routed.result.ok
                /\ routed.result.kind = "Custom"
                /\ routed.result.client = clients[p]
                /\ routed.result.name = t
                /\ routed.result.name =
                      SubSeq(routed.value.name,
                             Min(DelimiterPositions(routed.value.name))
                               + Len(NAMESPACE_DELIMITER),
                             Len(routed.value.name))

\* C14's case: a name built from a suffixed key and a tool name that begins with
\* an underscore, so that the delimiter occurs twice in it, was routed
C14_Witness ==
    /\ pc = "routed"
    /\ \E p \in DOMAIN clients :
          /\ p # clients[p].server_name
          /\ routed.value.name = NamespacedName(p, <<"_", "t">>)
          /\ Cardinality(DelimiterPositions(routed.value.name)) = 2
    /\ routed.result.ok

\* C15: routing a remote key of the map load_tools returned reaches the client
\* that declared the spec stored under that key, also when collision resolution
\* moved a client to a suffixed key.
C15_RegistryAndRouterAgree ==
    (pc = "routed" /\ routed.value.name \in DOMAIN tool_specs \ BuiltinNames) =>
        /\ routed.result.ok
        /\ routed.result.kind = "Custom"
        /\ routed.result.client.arc = tool_specs[routed.value.name].owner

\* load_tools has returned Ok(tool_specs)
ToolsLoaded == pc \in {"loaded", "routed"}

\* the map holds a spec of tool t under the key prefixed with the client's name
HoldsSpecOf(client, t) ==
    /\ NamespacedName(client.server_name, t) \in DOMAIN tool_specs
    /\ tool_specs[NamespacedName(client.server_name, t)].origin = t

\* C20: a failed spec fetch is never fatal: load_tools returns no error, and the
\* map it returns holds every catalog entry and every spec of every client whose
\* fetch succeeded, holds no entry of a client whose fetch failed, and each such
\* failure was reported under the provider's key.
C20_SpecFetchFailureIsIsolated ==
    /\ pc # "load_error"
    /\ ToolsLoaded =>
          /\ \A n \in BuiltinNames :
                n \in DOMAIN tool_specs /\ tool_specs[n] = ToolIndex[n]
          /\ \A k \in DOMAIN clients :
                IF FetchOk(clients[k].cfg)
                THEN \A j \in DOMAIN DeclaredTools(clients[k].cfg) :
                        HoldsSpecOf(clients[k], DeclaredTools(clients[k].cfg)[j])
                ELSE /\ \A key \in DOMAIN tool_specs :
                            tool_specs[key].owner # clients[k].arc
                     /\ \E o \in DOMAIN output :
                            output[o] = [kind |-> "spec_failed", name |-> k]

\* a client was inserted or a boot failure was reported
ResultsConsumed ==
    \/ DOMAIN clients # {}
    \/ \E o \in DOMAIN output : output[o].kind = "init_failed"

\* every start has completed and its result is in init_results
AllCollected ==
    /\ \A i \in DOMAIN task : task[i] = "done"
    /\ Len(init_results) = Len(pre_initialized)

\* C16: no client is inserted and no boot failure is reported before every start
\* has completed and the display thread was joined, and a manager that was
\* returned holds every booted client.
C16_NoPartialResults ==
    /\ ResultsConsumed =>
          /\ AllCollected
          /\ ThreadEnded
          /\ pc \notin {"from_configs", "booting", "joining"}
    /\ ManagerBuilt => {clients[k].arc : k \in DOMAIN clients} = BootedResults

\* C16's case: of two collected results the first was consumed and the second
\* not yet
C16_Witness ==
    /\ pc = "inserting"
    /\ Len(init_results) = 2
    /\ ri = 1
    /\ ResultsConsumed

\* the kinds of the signals task i has sent, in order
SentKinds(i) == [k \in DOMAIN signals[i] |-> signals[i][k].kind]

\* Add goes out before the start begins and Remove after it completes
SignalsFollowStart ==
    \A i \in DOMAIN task :
        SentKinds(i) = CASE task[i] = "running" -> <<"Add">>
                         [] task[i] = "done" -> <<"Add", "Remove">>
                         [] OTHER -> <<>>

\* a signal is dropped only when the display thread has ended
DroppedOnlyAfterExit ==
    \A i \in DOMAIN signals : \A k \in DOMAIN signals[i] :
        ~signals[i][k].delivered => ThreadEnded

\* C17: for every provider Add is sent before its start begins and Remove after
\* it completes; a signal is dropped only when the display thread has exited;
\* and whatever the display thread does, a boot whose thread has exited still
\* runs every start to completion and collects every result.
C17_SignalsAreBestEffort ==
    /\ [](SignalsFollowStart /\ DroppedOnlyAfterExit)
    /\ [](pc \notin {"from_configs", "booting"} => AllCollected)
    /\ (pc = "booting") ~> (pc = "joining" /\ AllCollected)
    /\ (pc = "booting" /\ ThreadEnded) ~> (pc = "joining" /\ AllCollected)

\* C17's case: the display thread ended on a write error, signals of two
\* providers were dropped, and both results were collected
C17_Witness ==
    /\ thread = "err"
    /\ pc = "joining"
    /\ Len(init_results) = 2
    /\ \A i \in DOMAIN signals : \E k \in DOMAIN signals[i] : ~signals[i][k].delivered

\* from_configs is past the join of line 225
PastJoin == pc \notin {"from_configs", "booting", "joining"}

\* the display thread ended through `?` or through a panic
AbnormalExit == thread \in {"err", "panicked"}

\* the error! of line 226 was written
DisplayFailureLogged == \E k \in DOMAIN log : log[k].kind = "display_failed"

\* the display thread ends and from_configs gets past the join
DisplayTerminates ==
    /\ (pc = "booting") ~> PastJoin
    /\ (thread = "running") ~> ThreadEnded

\* the loop is left through its break only when no signal is queued and every
\* sender has been dropped
ExitsWhenDisconnected ==
    [][thread = "running" /\ thread' = "ok" => rx = <<>> /\ ~SendersAlive]_vars

\* an abnormal exit of the display thread is in the log once it was joined
AbnormalExitLogged == [](PastJoin /\ AbnormalExit => DisplayFailureLogged)

\* C18: when every start completes the display thread terminates and
\* from_configs gets past the join; the thread leaves its loop normally only
\* with the queue drained and every sender dropped; and an abnormal exit of the
\* thread is logged.
C18_DisplayThreadTerminates ==
    /\ DisplayTerminates
    /\ ExitsWhenDisconnected
    /\ AbnormalExitLogged

\* every row that was printed shows a completion line
AllRowsCompleted == \A r \in DOMAIN rows : rows[r].text = "loaded"

\* a row that shows a completion line is not written again by a timeout
CompletedRowsStay ==
    [][\A r \in DOMAIN rows : rows[r].text = "loaded" => rows'[r] = rows[r]]_vars

\* C19: when the display thread has left its loop normally, every row it printed
\* for an Add shows the completion line of the matching Remove, and a row that
\* shows a completion line is not animated again; providers that share a
\* sanitized name included.
C19_RowsCompletedAtNormalExit ==
    /\ [](thread = "ok" => AllRowsCompleted)
    /\ CompletedRowsStay

=============================================================================
